---- MODULE Spec2Model ----
(***************************************************************************)
(* Nephro-Sim (src/app.py): the scenario table get_parameters and the      *)
(* physiology calculation that follows it (ENaC flux, systolic blood       *)
(* pressure, serum potassium), statement by statement.                     *)
(*                                                                         *)
(* Python floats are modelled as exact fixed-point rationals: every        *)
(* quantity is an integer numerator over the unit (denominator) named      *)
(* beside it.  The units are chosen so that every literal of the source    *)
(* and every product the script forms is an integer, so no rounding        *)
(* happens in the model; IEEE rounding of the doubles is not modelled.     *)
(***************************************************************************)
EXTENDS Integers, FiniteSets, Sequences, TLC

VARIABLES scenario, g_factor, serum_aldo, mr_efficacy, delivery, pore_block,
          vol_mod, aldo_signal, aldo_stim, channel_open_prob, enac_flux,
          bp, k_val, dashboard, pc

vars == <<scenario, g_factor, serum_aldo, mr_efficacy, delivery, pore_block,
          vol_mod, aldo_signal, aldo_stim, channel_open_prob, enac_flux,
          bp, k_val, dashboard, pc>>

(***************************************************************************)
(* Fixed-point units.                                                      *)
(***************************************************************************)
\* g_factor is held in tenths (0.1 -> 1, 1.0 -> 10, 4.0 -> 40).
GUnit == 10
\* mr_efficacy is held in twentieths (0.8 -> 16, 1.0 -> 20).
EUnit == 20
\* delivery is held in tenths (0.6 -> 6, 3.5 -> 35).
DUnit == 10
\* pore_block is held in twentieths (0.95 -> 19).
PUnit == 20
\* vol_mod is held in hundredths (0.88 -> 88, 1.15 -> 115).
VUnit == 100
\* serum_aldo is held in whole ng/dL.

\* The divisor of aldo_signal in aldo_stim (15.0).
AldoK == 15
\* aldo_signal = serum_aldo * mr_efficacy is in 1/EUnit;
\* aldo_stim = 1 + aldo_signal / 15.0 is in 1/StimUnit.
StimUnit == EUnit * AldoK
\* channel_open_prob = g_factor [* aldo_stim] is in 1/ProbUnit.
ProbUnit == GUnit * StimUnit
\* enac_flux = channel_open_prob * delivery * (1 - pore_block) is in 1/FluxUnit.
FluxUnit == ProbUnit * DUnit * PUnit
\* bp is in 1/BpUnit.
BpUnit == FluxUnit
\* k_val is in 1/KUnit (the slope 0.5 halves a flux difference).
KUnit == 2 * FluxUnit

Max(a, b) == IF a >= b THEN a ELSE b
Min(a, b) == IF a <= b THEN a ELSE b

(***************************************************************************)
(* The sidebar's radio options and get_parameters.                         *)
(***************************************************************************)
ScenarioKinds ==
    { "Normal Physiology",
      "Acetazolamide (Proximal)",
      "Vomiting (Metabolic Alkalosis)",
      "Furosemide (Loop)",
      "Dehydration",
      "Liddle's Syndrome",
      "Amiloride (Channel Blocker)",
      "Aldactone (Receptor Antagonist)",
      "PHA Type 1 (ENaC Inactivity)" }

\* Identifiers outside the enumeration, as arguments of get_parameters.
OutsideIds == { "PHA1 (Loss of Function)", "Liddle Syndrome", "" }

ScenarioIds == ScenarioKinds \cup OutsideIds

\* The six returned values, in the order of the return statements.
Params(g, a, e, d, p, v) ==
    [ g_factor |-> g, serum_aldo |-> a, mr_efficacy |-> e,
      delivery |-> d, pore_block |-> p, vol_mod |-> v ]

\* Variant: the fall-through returns the "Normal Physiology" row.
DefaultParams_Normal == Params(10, 12, 20, 10, 0, 100)

\* The value returned for an identifier matched by none of the branches.
DefaultParams == Params(10, 10, 20, 10, 0, 100)

\* Variant: the "Furosemide (Loop)" row carries serum aldosterone 85.
get_parameters_Furosemide85(scen) ==
    CASE scen = "Normal Physiology" -> Params(10, 12, 20, 10, 0, 100)
      [] scen = "Acetazolamide (Proximal)" -> Params(10, 8, 16, 15, 0, 90)
      [] scen = "Vomiting (Metabolic Alkalosis)" -> Params(10, 60, 20, 14, 0, 85)
      [] scen = "Furosemide (Loop)" -> Params(10, 85, 20, 35, 0, 88)
      [] scen = "Dehydration" -> Params(10, 80, 20, 6, 0, 85)
      [] scen = "Liddle's Syndrome" -> Params(40, 2, 20, 10, 0, 115)
      [] scen = "Amiloride (Channel Blocker)" -> Params(10, 70, 20, 10, 19, 94)
      [] scen = "Aldactone (Receptor Antagonist)" -> Params(10, 80, 0, 10, 0, 94)
      [] scen = "PHA Type 1 (ENaC Inactivity)" -> Params(1, 90, 20, 10, 0, 88)
      [] OTHER -> DefaultParams

get_parameters(scen) ==
    CASE scen = "Normal Physiology" -> Params(10, 12, 20, 10, 0, 100)
      [] scen = "Acetazolamide (Proximal)" -> Params(10, 8, 16, 15, 0, 90)
      [] scen = "Vomiting (Metabolic Alkalosis)" -> Params(10, 60, 20, 14, 0, 85)
      [] scen = "Furosemide (Loop)" -> Params(10, 50, 20, 35, 0, 88)
      [] scen = "Dehydration" -> Params(10, 80, 20, 6, 0, 85)
      [] scen = "Liddle's Syndrome" -> Params(40, 2, 20, 10, 0, 115)
      [] scen = "Amiloride (Channel Blocker)" -> Params(10, 70, 20, 10, 19, 94)
      [] scen = "Aldactone (Receptor Antagonist)" -> Params(10, 80, 0, 10, 0, 94)
      [] scen = "PHA Type 1 (ENaC Inactivity)" -> Params(1, 90, 20, 10, 0, 88)
      [] OTHER -> DefaultParams

(***************************************************************************)
(* The physiology calculation, one operator per assignment.                *)
(***************************************************************************)
AldoSignal(aldo, eff) == aldo * eff

\* Variant: the divisor is 20.0 instead of 15.0.
AldoStim_K20(signal) == StimUnit + (signal * AldoK) \div 20

AldoStim(signal) == StimUnit + signal

\* Variant: the Liddle branch is missing.
ChannelOpenProb_NoLiddle(scen, g, stim) == g * stim

ChannelOpenProb(scen, g, stim) ==
    IF scen = "Liddle's Syndrome"
    THEN g * StimUnit
    ELSE g * stim

\* Variant: the block term is added instead of subtracted.
EnacFlux_Unblocked(prob, deliv, block) == prob * deliv * (PUnit + block)

\* Variant: the delivery factor is the baseline 1.0.
EnacFlux_NoDelivery(prob, deliv, block) == prob * DUnit * (PUnit - block)

EnacFlux(prob, deliv, block) == prob * deliv * (PUnit - block)

base_bp == 120
bp_min == 85
bp_max == 190

BpVolume(vol) == base_bp * vol * (BpUnit \div VUnit)

\* bp += (enac_flux - 1.5) * 4
FluxPivotBp == (15 * FluxUnit) \div 10
BpTune(b, flux) == b + (flux - FluxPivotBp) * 4

\* Variant: only the lower clamp is applied.
BpClamp_LowerOnly(b) == Max(bp_min * BpUnit, b)

BpClamp(b) == Max(bp_min * BpUnit, Min(bp_max * BpUnit, b))

\* k_val = 4.0 - (0.5 * (enac_flux - 2.0))
KSlope(flux) == 4 * KUnit - (flux - 2 * FluxUnit)

\* Variant: the genotype test is missing.
ChannelDisabled_NoGenotype(block, g, eff) ==
    \/ 10 * block > 8 * PUnit
    \/ 10 * eff < 1 * EUnit

\* pore_block > 0.8 or g_factor < 0.2 or mr_efficacy < 0.1
ChannelDisabled(block, g, eff) ==
    \/ 10 * block > 8 * PUnit
    \/ 10 * g < 2 * GUnit
    \/ 10 * eff < 1 * EUnit

\* k_val += 1.5
KBoostAmount == (15 * KUnit) \div 10
KBoost(k, block, g, eff) ==
    IF ChannelDisabled(block, g, eff) THEN k + KBoostAmount ELSE k

k_min == (28 * KUnit) \div 10
k_max == (65 * KUnit) \div 10

KClamp(k) == Max(k_min, Min(k_max, k))

\* The whole calculation on a parameter record.
FluxOf(scen, p) ==
    EnacFlux(ChannelOpenProb(scen, p.g_factor,
                             AldoStim(AldoSignal(p.serum_aldo, p.mr_efficacy))),
             p.delivery, p.pore_block)

BpOf(scen, p) == BpClamp(BpTune(BpVolume(p.vol_mod), FluxOf(scen, p)))

KOf(scen, p) ==
    KClamp(KBoost(KSlope(FluxOf(scen, p)), p.pore_block, p.g_factor, p.mr_efficacy))

(***************************************************************************)
(* draw_dashboard: the colour and interpretation logic of the data panel.  *)
(***************************************************************************)
ColorBp(b) ==
    IF b < 105 * BpUnit THEN "blue"
    ELSE IF b > 135 * BpUnit THEN "red" ELSE "green"

HyperK == (52 * KUnit) \div 10

ColorK(k) ==
    IF 10 * k < 35 * KUnit \/ k > HyperK THEN "red" ELSE "green"

Notes(b, k) ==
    (IF b < 100 * BpUnit THEN {"Hypotension"} ELSE {})
    \cup (IF b > 140 * BpUnit THEN {"Hypertension"} ELSE {})
    \cup (IF k > HyperK THEN {"Hyperkalemia"} ELSE {})
    \cup (IF 10 * k < 32 * KUnit THEN {"Hypokalemia"} ELSE {})

NoDashboard == [c_bp |-> "", c_k |-> "", notes |-> {}]

(***************************************************************************)
(* The script, top to bottom.  pc names the statement to execute next.     *)
(***************************************************************************)
Unassigned ==
    /\ aldo_signal = 0 /\ aldo_stim = 0 /\ channel_open_prob = 0
    /\ enac_flux = 0 /\ bp = 0 /\ k_val = 0
    /\ dashboard = NoDashboard

\* The script is entered with the sidebar's selection; get_parameters is also
\* exercised on identifiers outside the radio's options.
Init ==
    /\ scenario \in ScenarioIds
    /\ g_factor = 0 /\ serum_aldo = 0 /\ mr_efficacy = 0
    /\ delivery = 0 /\ pore_block = 0 /\ vol_mod = 0
    /\ Unassigned
    /\ pc = "get_parameters"

\* g_factor, serum_aldo, mr_efficacy, delivery, pore_block, vol_mod =
\*     get_parameters(scenario)
GetParameters ==
    /\ pc = "get_parameters"
    /\ LET r == get_parameters(scenario) IN
         /\ g_factor' = r.g_factor
         /\ serum_aldo' = r.serum_aldo
         /\ mr_efficacy' = r.mr_efficacy
         /\ delivery' = r.delivery
         /\ pore_block' = r.pore_block
         /\ vol_mod' = r.vol_mod
    /\ pc' = "aldo_signal"
    /\ UNCHANGED <<scenario, aldo_signal, aldo_stim, channel_open_prob,
                   enac_flux, bp, k_val, dashboard>>

SetAldoSignal ==
    /\ pc = "aldo_signal"
    /\ aldo_signal' = AldoSignal(serum_aldo, mr_efficacy)
    /\ pc' = "aldo_stim"
    /\ UNCHANGED <<scenario, g_factor, serum_aldo, mr_efficacy, delivery,
                   pore_block, vol_mod, aldo_stim, channel_open_prob,
                   enac_flux, bp, k_val, dashboard>>

SetAldoStim ==
    /\ pc = "aldo_stim"
    /\ aldo_stim' = AldoStim(aldo_signal)
    /\ pc' = "channel_open_prob"
    /\ UNCHANGED <<scenario, g_factor, serum_aldo, mr_efficacy, delivery,
                   pore_block, vol_mod, aldo_signal, channel_open_prob,
                   enac_flux, bp, k_val, dashboard>>

SetChannelOpenProb ==
    /\ pc = "channel_open_prob"
    /\ channel_open_prob' = ChannelOpenProb(scenario, g_factor, aldo_stim)
    /\ pc' = "enac_flux"
    /\ UNCHANGED <<scenario, g_factor, serum_aldo, mr_efficacy, delivery,
                   pore_block, vol_mod, aldo_signal, aldo_stim,
                   enac_flux, bp, k_val, dashboard>>

SetEnacFlux ==
    /\ pc = "enac_flux"
    /\ enac_flux' = EnacFlux(channel_open_prob, delivery, pore_block)
    /\ pc' = "bp_volume"
    /\ UNCHANGED <<scenario, g_factor, serum_aldo, mr_efficacy, delivery,
                   pore_block, vol_mod, aldo_signal, aldo_stim,
                   channel_open_prob, bp, k_val, dashboard>>

SetBpVolume ==
    /\ pc = "bp_volume"
    /\ bp' = BpVolume(vol_mod)
    /\ pc' = "bp_tune"
    /\ UNCHANGED <<scenario, g_factor, serum_aldo, mr_efficacy, delivery,
                   pore_block, vol_mod, aldo_signal, aldo_stim,
                   channel_open_prob, enac_flux, k_val, dashboard>>

SetBpTune ==
    /\ pc = "bp_tune"
    /\ bp' = BpTune(bp, enac_flux)
    /\ pc' = "bp_clamp"
    /\ UNCHANGED <<scenario, g_factor, serum_aldo, mr_efficacy, delivery,
                   pore_block, vol_mod, aldo_signal, aldo_stim,
                   channel_open_prob, enac_flux, k_val, dashboard>>

SetBpClamp ==
    /\ pc = "bp_clamp"
    /\ bp' = BpClamp(bp)
    /\ pc' = "k_slope"
    /\ UNCHANGED <<scenario, g_factor, serum_aldo, mr_efficacy, delivery,
                   pore_block, vol_mod, aldo_signal, aldo_stim,
                   channel_open_prob, enac_flux, k_val, dashboard>>

SetKSlope ==
    /\ pc = "k_slope"
    /\ k_val' = KSlope(enac_flux)
    /\ pc' = "k_boost"
    /\ UNCHANGED <<scenario, g_factor, serum_aldo, mr_efficacy, delivery,
                   pore_block, vol_mod, aldo_signal, aldo_stim,
                   channel_open_prob, enac_flux, bp, dashboard>>

SetKBoost ==
    /\ pc = "k_boost"
    /\ k_val' = KBoost(k_val, pore_block, g_factor, mr_efficacy)
    /\ pc' = "k_clamp"
    /\ UNCHANGED <<scenario, g_factor, serum_aldo, mr_efficacy, delivery,
                   pore_block, vol_mod, aldo_signal, aldo_stim,
                   channel_open_prob, enac_flux, bp, dashboard>>

SetKClamp ==
    /\ pc = "k_clamp"
    /\ k_val' = KClamp(k_val)
    /\ pc' = "draw_dashboard"
    /\ UNCHANGED <<scenario, g_factor, serum_aldo, mr_efficacy, delivery,
                   pore_block, vol_mod, aldo_signal, aldo_stim,
                   channel_open_prob, enac_flux, bp, dashboard>>

DrawDashboard ==
    /\ pc = "draw_dashboard"
    /\ dashboard' = [c_bp |-> ColorBp(bp), c_k |-> ColorK(k_val),
                     notes |-> Notes(bp, k_val)]
    /\ pc' = "done"
    /\ UNCHANGED <<scenario, g_factor, serum_aldo, mr_efficacy, delivery,
                   pore_block, vol_mod, aldo_signal, aldo_stim,
                   channel_open_prob, enac_flux, bp, k_val>>

Evaluate ==
    \/ SetAldoSignal
    \/ SetAldoStim
    \/ SetChannelOpenProb
    \/ SetEnacFlux
    \/ SetBpVolume
    \/ SetBpTune
    \/ SetBpClamp
    \/ SetKSlope
    \/ SetKBoost
    \/ SetKClamp
    \/ DrawDashboard

Next == GetParameters \/ Evaluate

Spec == Init /\ [][Next]_vars

(***************************************************************************)
(* The calculation as a function of an arbitrary well-formed parameter     *)
(* tuple: the six values are drawn from grids over their documented        *)
(* ranges instead of being returned by get_parameters.                     *)
(***************************************************************************)
MaxGenotype == 45
MaxDelivery == 40

GenotypeGrid == {0, 1, 2, 10, 40, MaxGenotype}
AldoGrid     == {0, 12, 100}
EfficacyGrid == {0, 1, 2, 20}
DeliveryGrid == {0, 10, 35, MaxDelivery}
PoreGrid     == {0, 10, 16, 17, 20}
VolumeGrid   == {85, 100, 115}

\* The scenario argument of the calculation (it only tests for Liddle's).
EvalScenarios == ScenarioKinds

InitEval ==
    /\ scenario \in EvalScenarios
    /\ g_factor \in GenotypeGrid
    /\ serum_aldo \in AldoGrid
    /\ mr_efficacy \in EfficacyGrid
    /\ delivery \in DeliveryGrid
    /\ pore_block \in PoreGrid
    /\ vol_mod \in VolumeGrid
    /\ Unassigned
    /\ pc = "aldo_signal"

NextEval == Evaluate

SpecEval == InitEval /\ [][NextEval]_vars

\* The parameter tuple currently held by the script.
CurParams ==
    Params(g_factor, serum_aldo, mr_efficacy, delivery, pore_block, vol_mod)

FluxSet == pc \in {"bp_volume", "bp_tune", "bp_clamp", "k_slope", "k_boost",
                   "k_clamp", "draw_dashboard", "done"}
Finished == pc \in {"draw_dashboard", "done"}

Liddle == "Liddle's Syndrome"
Normal == "Normal Physiology"
BpClamped == pc \in {"k_slope", "k_boost", "k_clamp", "draw_dashboard", "done"}

(***************************************************************************)
(* C1 (SpecEval).  For every scenario and every well-formed parameter      *)
(* tuple, the clamped systolic_bp lies in [85, 190] and the clamped        *)
(* serum_potassium lies in [2.8, 6.5], also when the +1.5 correction has   *)
(* been applied.                                                           *)
(***************************************************************************)
C1_OutputsInRange ==
    /\ BpClamped => (85 * BpUnit <= bp /\ bp <= 190 * BpUnit)
    /\ Finished => (28 * KUnit <= 10 * k_val /\ 10 * k_val <= 65 * KUnit)

\* The correction was applied and both clamps cut the raw value.
C1_Witness ==
    /\ Finished
    /\ 10 * mr_efficacy < EUnit
    /\ BpTune(BpVolume(vol_mod), enac_flux) > 190 * BpUnit
    /\ KSlope(enac_flux) + KBoostAmount < k_min
    /\ bp = 190 * BpUnit
    /\ 10 * k_val = 28 * KUnit

(***************************************************************************)
(* C2 (Spec).  As stated: the resolver fails with InvalidScenario exactly  *)
(* when the identifier is outside the enumeration.                         *)
(***************************************************************************)
C2_Original ==
    pc # "get_parameters" =>
        ((pc = "InvalidScenario") <=> (scenario \notin ScenarioKinds))

(***************************************************************************)
(* C2 amended (Spec).  The resolver never fails: for an identifier outside *)
(* the enumeration it returns the tuple (1.0, 10.0, 1.0, 1.0, 0.0, 1.0)    *)
(* and the calculation proceeds with it.                                   *)
(***************************************************************************)
C2_DefaultForUnknown ==
    pc # "get_parameters" =>
        /\ pc # "InvalidScenario"
        /\ scenario \notin ScenarioKinds =>
               CurParams = Params(10, 10, 20, 10, 0, 100)

C2_Witness ==
    /\ pc = "done"
    /\ scenario = "PHA1 (Loss of Function)"
    /\ g_factor = 10 /\ serum_aldo = 10

(***************************************************************************)
(* C3 (Spec).  "Normal Physiology" (1.0, 12.0, 1.0, 1.0, 0.0, 1.0) yields  *)
(* channel_flux = 1.8, systolic_bp in [100, 140] and serum_potassium in    *)
(* [3.5, 5.0].                                                             *)
(***************************************************************************)
C3_NormalPhysiology ==
    scenario = Normal =>
        /\ pc # "get_parameters" => CurParams = Params(10, 12, 20, 10, 0, 100)
        /\ FluxSet => 10 * enac_flux = 18 * FluxUnit
        /\ BpClamped => (100 * BpUnit <= bp /\ bp <= 140 * BpUnit)
        /\ Finished => (35 * KUnit <= 10 * k_val /\ 10 * k_val <= 50 * KUnit)

C3_Witness ==
    /\ scenario = Normal /\ pc = "done"
    /\ 10 * bp = 1212 * BpUnit
    /\ 10 * k_val = 41 * KUnit
    /\ dashboard = [c_bp |-> "green", c_k |-> "green", notes |-> {}]

(***************************************************************************)
(* C4 (Spec).  Amiloride (pore_block 0.95) and PHA type 1 (genotype 0.1)   *)
(* each end with serum_potassium > 5.2, and in both the +1.5 branch is     *)
(* taken: after the boost statement k_val is the slope value plus 1.5.     *)
(***************************************************************************)
C4_HyperkalemiaScenarios ==
    scenario \in {"Amiloride (Channel Blocker)", "PHA Type 1 (ENaC Inactivity)"} =>
        /\ pc # "get_parameters" =>
               IF scenario = "Amiloride (Channel Blocker)"
               THEN 100 * pore_block = 95 * PUnit
               ELSE 10 * g_factor = 1 * GUnit
        /\ pc = "k_clamp" =>
               k_val = 4 * KUnit - (enac_flux - 2 * FluxUnit) + (15 * KUnit) \div 10
        /\ Finished => 10 * k_val > 52 * KUnit

C4_Witness ==
    /\ scenario = "PHA Type 1 (ENaC Inactivity)" /\ pc = "done"
    /\ 100 * k_val = 615 * KUnit
    /\ "Hyperkalemia" \in dashboard.notes

(***************************************************************************)
(* C5 (SpecEval).  As stated: whenever the channel-disabled condition      *)
(* holds (pore_block > 0.8 or genotype < 0.2 or receptor efficacy < 0.1),  *)
(* the evaluated serum_potassium is above 5.2; in particular for total     *)
(* blockade (pore_block = 1.0).                                            *)
(***************************************************************************)
C5_Original ==
    (Finished /\ (\/ 10 * pore_block > 8 * PUnit
                  \/ 10 * g_factor < 2 * GUnit
                  \/ 10 * mr_efficacy < 1 * EUnit))
        => 10 * k_val > 52 * KUnit

(***************************************************************************)
(* C6 (SpecEval).  As stated: with everything else fixed, any larger       *)
(* pore_block gives a strictly smaller channel_flux, and the flux is 0 at  *)
(* pore_block = 1.0.                                                       *)
(***************************************************************************)
WithPore(p2) == [CurParams EXCEPT !.pore_block = p2]

C6_Original ==
    FluxSet =>
        /\ \A p2 \in PoreGrid :
               p2 > pore_block => FluxOf(scenario, WithPore(p2)) < enac_flux
        /\ pore_block = PUnit => enac_flux = 0

(***************************************************************************)
(* C6 amended (SpecEval).  With everything else fixed and both the channel *)
(* open probability and distal_delivery non-zero, any larger pore_block    *)
(* gives a strictly smaller channel_flux; the flux is 0 at pore_block =    *)
(* 1.0.                                                                    *)
(***************************************************************************)
C6_PoreBlockDecreasesFlux ==
    FluxSet =>
        /\ (channel_open_prob > 0 /\ delivery > 0) =>
               \A p2 \in PoreGrid :
                   p2 > pore_block => FluxOf(scenario, WithPore(p2)) < enac_flux
        /\ pore_block = PUnit => enac_flux = 0

C6_Witness ==
    /\ FluxSet
    /\ channel_open_prob > 0 /\ delivery > 0
    /\ 2 * pore_block = PUnit
    /\ enac_flux > 0

(***************************************************************************)
(* C7 (SpecEval).  As stated: with a non-zero open probability, any larger *)
(* distal_delivery gives a strictly larger channel_flux, for every         *)
(* pore_block in [0, 1].                                                   *)
(***************************************************************************)
WithDelivery(d2) == [CurParams EXCEPT !.delivery = d2]

C7_Original ==
    (FluxSet /\ channel_open_prob > 0) =>
        \A d2 \in DeliveryGrid :
            d2 > delivery => FluxOf(scenario, WithDelivery(d2)) > enac_flux

(***************************************************************************)
(* C7 amended (SpecEval).  With a non-zero open probability, any larger    *)
(* distal_delivery gives a strictly larger channel_flux, for every         *)
(* pore_block in [0, 1), that is below total blockade.                     *)
(***************************************************************************)
C7_DeliveryIncreasesFlux ==
    (FluxSet /\ channel_open_prob > 0 /\ pore_block < PUnit) =>
        \A d2 \in DeliveryGrid :
            d2 > delivery => FluxOf(scenario, WithDelivery(d2)) > enac_flux

C7_Witness ==
    /\ FluxSet
    /\ channel_open_prob > 0
    /\ pore_block = 17
    /\ delivery = DUnit
    /\ enac_flux > 0

(***************************************************************************)
(* C8 (Spec).  For each scenario kind the returned tuple lies, field by    *)
(* field, within the range of that scenario's row of the documented table, *)
(* so fractional fields are in [0, 1] and genotype, aldosterone and        *)
(* delivery are non-negative; the tuple stays the one returned.            *)
(***************************************************************************)
\* The documented rows: <<low, high>> per field, in the units above.
Row(g, aLo, aHi, eLo, eHi, dLo, dHi, p, vLo, vHi) ==
    [ g_factor |-> <<g, g>>, serum_aldo |-> <<aLo, aHi>>,
      mr_efficacy |-> <<eLo, eHi>>, delivery |-> <<dLo, dHi>>,
      pore_block |-> <<p, p>>, vol_mod |-> <<vLo, vHi>> ]

TableRow(scen) ==
    CASE scen = "Normal Physiology" -> Row(10, 12, 12, 20, 20, 10, 10, 0, 100, 100)
      [] scen = "Acetazolamide (Proximal)" -> Row(10, 8, 30, 16, 20, 15, 18, 0, 90, 95)
      [] scen = "Vomiting (Metabolic Alkalosis)" -> Row(10, 60, 85, 20, 20, 12, 15, 0, 85, 88)
      [] scen = "Furosemide (Loop)" -> Row(10, 45, 80, 20, 20, 30, 35, 0, 88, 92)
      [] scen = "Dehydration" -> Row(10, 80, 95, 20, 20, 5, 8, 0, 85, 85)
      [] scen = "Liddle's Syndrome" -> Row(40, 1, 5, 20, 20, 10, 10, 0, 100, 115)
      [] scen = "Amiloride (Channel Blocker)" -> Row(10, 10, 70, 20, 20, 10, 10, 19, 94, 95)
      [] scen = "Aldactone (Receptor Antagonist)" -> Row(10, 80, 90, 0, 1, 10, 10, 0, 94, 94)
      [] scen = "PHA Type 1 (ENaC Inactivity)" -> Row(1, 90, 100, 20, 20, 10, 10, 0, 88, 88)

Within(x, range) == range[1] <= x /\ x <= range[2]

C8_TableRows ==
    (pc # "get_parameters" /\ scenario \in ScenarioKinds) =>
        /\ Within(g_factor, TableRow(scenario).g_factor)
        /\ Within(serum_aldo, TableRow(scenario).serum_aldo)
        /\ Within(mr_efficacy, TableRow(scenario).mr_efficacy)
        /\ Within(delivery, TableRow(scenario).delivery)
        /\ Within(pore_block, TableRow(scenario).pore_block)
        /\ Within(vol_mod, TableRow(scenario).vol_mod)
        /\ 0 <= mr_efficacy /\ mr_efficacy <= EUnit
        /\ 0 <= pore_block /\ pore_block <= PUnit
        /\ g_factor >= 0 /\ serum_aldo >= 0 /\ delivery >= 0

C8_Witness ==
    /\ pc = "done"
    /\ scenario = "Furosemide (Loop)"
    /\ CurParams = Params(10, 50, 20, 35, 0, 88)

(***************************************************************************)
(* C9 (Spec).  As stated: for each scenario documented as low blood        *)
(* pressure (Acetazolamide, Vomiting, Furosemide, Dehydration, PHA type 1; *)
(* volume modifier below 1.0) the evaluated systolic_bp is lower than the  *)
(* one evaluated for Normal Physiology.                                    *)
(***************************************************************************)
LowBpScenarios ==
    { "Acetazolamide (Proximal)", "Vomiting (Metabolic Alkalosis)",
      "Furosemide (Loop)", "Dehydration", "PHA Type 1 (ENaC Inactivity)" }

C9_Original ==
    (BpClamped /\ scenario \in LowBpScenarios) =>
        /\ vol_mod < VUnit
        /\ bp < BpOf(Normal, get_parameters(Normal))

(***************************************************************************)
(* C10 (SpecEval).  In Liddle's Syndrome the open probability is the       *)
(* genotype factor alone, so channel_flux, systolic_bp and                 *)
(* serum_potassium do not change with serum_aldosterone or                 *)
(* receptor_efficacy (efficacy kept at or above 0.1); in every other       *)
(* scenario the open probability is genotype * (1 + aldo * efficacy / 15). *)
(***************************************************************************)
WithHormone(a2, e2) ==
    [CurParams EXCEPT !.serum_aldo = a2, !.mr_efficacy = e2]

C10_LiddleIgnoresHormone ==
    Finished =>
        IF scenario = Liddle
        THEN /\ channel_open_prob * GUnit = g_factor * ProbUnit
             /\ 10 * mr_efficacy >= EUnit =>
                    \A a2 \in AldoGrid, e2 \in EfficacyGrid :
                        10 * e2 >= EUnit =>
                            /\ FluxOf(scenario, WithHormone(a2, e2)) = enac_flux
                            /\ BpOf(scenario, WithHormone(a2, e2)) = bp
                            /\ KOf(scenario, WithHormone(a2, e2)) = k_val
        ELSE channel_open_prob = g_factor * (EUnit * 15 + serum_aldo * mr_efficacy)

C10_Witness ==
    /\ pc = "done"
    /\ scenario = Liddle
    /\ 10 * mr_efficacy = EUnit
    /\ serum_aldo = 100
    /\ g_factor = 40
    /\ enac_flux > 0

====
